---- MODULE Spec2Model ----
(***************************************************************************)
(* Model of scripts/fetch.py: the feed normaliser (normalize and its       *)
(* classifiers infer_region_country, guess_category, score_impact) and     *)
(* the pipeline of main (fetch loop, deduplication, ranking, sink).        *)
(*                                                                         *)
(* Text is modelled character by character: a Python str is a sequence of  *)
(* one-character strings, and every regular expression of the source is    *)
(* written as its syntax tree and run by Search, so that the grouping of   *)
(* an alternation and the reach of each \b are those of the source.        *)
(*                                                                         *)
(* Three specifications: SpecNorm calls normalize once on an entry drawn   *)
(* from TextEntries; Spec is a run of main over the six sources of FEEDS;  *)
(* SpecRank starts main at line 114 with the Records of a fetch-ordered    *)
(* input, to run the deduplication and ranking steps on richer inputs.     *)
(* The clock is read once per run (a run within one UTC day), and lstrips  *)
(* is fixed per run by the Python the script runs under.                   *)
(***************************************************************************)
EXTENDS Integers, Sequences, FiniteSets, TLC

VARIABLES
  pc,         \* position of the run
  now,        \* the UTC clock read by datetime.now: <<Y, m, d, H, M, S>>
  lstrips,    \* whether this Python's urlsplit strips leading blanks
  src_name,   \* normalize's first argument
  e,          \* normalize's second argument: the RawEntry
  item,       \* the Record normalize returned
  feedIdx,    \* main: index in FEEDS of the next source
  fetched,    \* main: what feedparser.parse did per source visited
  items,      \* main: the normalized Records, in fetch order
  printed,    \* main: the "Feed failed" diagnostics on stdout
  seen,       \* main: the set of dedup keys
  dedup,      \* main: the deduplicated Records
  df,         \* main: the sorted frame
  sink        \* what was written to docs/dataset.csv and docs/dataset.json

vars == <<pc, now, lstrips, src_name, e, item, feedIdx, fetched, items,
          printed, seen, dedup, df, sink>>

----------------------------------------------------------------------------
(* Characters *)

Lowers == <<"a","b","c","d","e","f","g","h","i","j","k","l","m","n","o","p","q","r","s","t","u","v","w","x","y","z">>
Uppers == <<"A","B","C","D","E","F","G","H","I","J","K","L","M","N","O","P","Q","R","S","T","U","V","W","X","Y","Z">>
Digits == <<"0","1","2","3","4","5","6","7","8","9">>

SeqRange(s) == {s[k] : k \in 1..Len(s)}

UpperSet == SeqRange(Uppers)
DigitSet == SeqRange(Digits)

\* \w of re on a str: letters, digits and the underscore
WordChars == SeqRange(Lowers) \cup UpperSet \cup DigitSet \cup {"_"}

\* \s of re, and what str.strip() removes
Whitespace == {" ", "\t", "\n", "\r"}

FoldMap == [c \in UpperSet |-> Lowers[CHOOSE k \in 1..26 : Uppers[k] = c]]

\* re.I: characters are compared with their case folded
Fold(c) == IF c \in UpperSet THEN FoldMap[c] ELSE c

DigitVal == [c \in DigitSet |-> (CHOOSE k \in 1..10 : Digits[k] = c) - 1]

\* code point order on the characters of a formatted date
Ord(c) == IF c \in DigitSet THEN 48 + DigitVal[c] ELSE 45

----------------------------------------------------------------------------
(* Regular expressions: syntax trees and re.search *)

Lit(s)  == [t |-> "lit", s |-> s]
Cls(cs) == [t |-> "cls", cs |-> cs]
WB      == [t |-> "wb"]
Cat(rs) == [t |-> "cat", rs |-> rs]
Alt(rs) == [t |-> "alt", rs |-> rs]
Opt(r)  == [t |-> "opt", r |-> r]
Star(r) == [t |-> "star", r |-> r]

IsWordAt(txt, i) == i >= 1 /\ i <= Len(txt) /\ txt[i] \in WordChars

RECURSIVE Ends(_, _, _)
RECURSIVE CatEnds(_, _, _, _)
RECURSIVE StarEnds(_, _, _, _)

\* the positions where a match of r that starts at position i can end
Ends(r, txt, i) ==
  CASE r.t = "lit" ->
         IF /\ i + Len(r.s) - 1 <= Len(txt)
            /\ \A k \in 1..Len(r.s) : Fold(txt[i + k - 1]) = Fold(r.s[k])
         THEN {i + Len(r.s)} ELSE {}
    [] r.t = "cls" ->
         IF i <= Len(txt) /\ txt[i] \in r.cs THEN {i + 1} ELSE {}
    [] r.t = "wb" ->
         IF IsWordAt(txt, i - 1) # IsWordAt(txt, i) THEN {i} ELSE {}
    [] r.t = "cat" -> CatEnds(r.rs, 1, txt, {i})
    [] r.t = "alt" -> UNION {Ends(r.rs[k], txt, i) : k \in 1..Len(r.rs)}
    [] r.t = "opt" -> {i} \cup Ends(r.r, txt, i)
    [] r.t = "star" -> StarEnds(r.r, txt, {i}, {i})

CatEnds(rs, k, txt, S) ==
  IF k > Len(rs) \/ S = {} THEN S
  ELSE CatEnds(rs, k + 1, txt, UNION {Ends(rs[k], txt, j) : j \in S})

StarEnds(r, txt, frontier, acc) ==
  LET nxt == UNION {Ends(r, txt, j) : j \in frontier} \ acc
  IN  IF nxt = {} THEN acc ELSE StarEnds(r, txt, nxt, acc \cup nxt)

\* re.search(r, txt) is not None
Search(r, txt) == \E i \in 1..(Len(txt) + 1) : Ends(r, txt, i) # {}

----------------------------------------------------------------------------
(* The rule tables *)

FEEDS == <<"PV-Tech", "Energy Storage News", "IEA News", "IRENA",
           "Bundesnetzagentur", "EU Energy">>

REGION_MAP == <<
  [rx |-> Alt(<<Cat(<<WB, Lit(<<"G","e","r","m","a","n","y">>)>>), Lit(<<"G","e","r","m","a","n">>),
                Lit(<<"B","u","n","d","e","s","n","e","t","z","a","g","e","n","t","u","r">>), Lit(<<"B","N","e","t","z","A">>),
                Lit(<<"F","r","a","u","n","h","o","f","e","r">>), Lit(<<"T","e","n","n","e","T">>), Lit(<<"5","0","H","e","r","t","z">>),
                Lit(<<"A","m","p","r","i","o","n">>), Cat(<<Lit(<<"T","r","a","n","s","n","e","t","B","W">>), WB>>)>>),
   rc |-> <<"Germany", "DE">>],
  [rx |-> Alt(<<Cat(<<WB, Lit(<<"I","n","d","i","a">>)>>), Lit(<<"M","N","R","E">>), Lit(<<"S","E","C","I">>),
                Lit(<<"C","E","A">>), Lit(<<"C","E","R","C">>), Lit(<<"G","u","j","a","r","a","t">>),
                Lit(<<"M","a","h","a","r","a","s","h","t","r","a">>), Lit(<<"R","a","j","a","s","t","h","a","n">>),
                Lit(<<"G","r","i","d","-","I","n","d","i","a">>), Cat(<<Lit(<<"P","O","S","O","C","O">>), WB>>)>>),
   rc |-> <<"India", "IN">>],
  [rx |-> Alt(<<Cat(<<WB, Lit(<<"E","u","r","o","p","e">>)>>), Lit(<<"E","u","r","o","p","e","a","n"," ","C","o","m","m","i","s","s","i","o","n">>),
                Cat(<<Lit(<<"E","U">>), WB>>)>>),
   rc |-> <<"Europe", "EU">>] >>

CATEGORY_GUESS == <<
  [rx |-> Alt(<<Cat(<<WB, Lit(<<"a","u","c","t","i","o","n">>)>>), Lit(<<"t","e","n","d","e","r">>), Lit(<<"R","f","S">>),
                Lit(<<"R","F","P">>), Lit(<<"b","i","d">>),
                Cat(<<Lit(<<"a","w","a","r","d","e","d">>), WB>>)>>),
   cat |-> "tender"],
  [rx |-> Alt(<<Cat(<<WB, Lit(<<"p","o","l","i","c","y">>)>>), Lit(<<"r","e","g","u","l","a","t","i","o","n">>),
                Lit(<<"c","o","n","s","u","l","t","a","t","i","o","n">>), Lit(<<"s","t","a","t","e","-","a","i","d">>), Lit(<<"E","E","G">>),
                Cat(<<Lit(<<"g","r","i","d"," ","c","o","d","e">>), WB>>)>>),
   cat |-> "policy"],
  [rx |-> Alt(<<Cat(<<WB, Lit(<<"p","r","o","j","e","c","t">>)>>), Lit(<<"N","T","P">>), Lit(<<"C","O","D">>),
                Lit(<<"c","o","m","m","i","s","s","i","o","n">>), Cat(<<Lit(<<"c","o","n","s","t","r","u","c","t","i","o","n">>), WB>>)>>),
   cat |-> "project"],
  [rx |-> Alt(<<Cat(<<WB, Lit(<<"p","r","i","c","e">>)>>), Lit(<<"t","a","r","i","f","f">>), Lit(<<"L","C","O","E">>),
                Lit(<<"m","o","d","u","l","e"," ","p","r","i","c","e">>),
                Cat(<<Lit(<<"b","a","t","t","e","r","y"," ","p","r","i","c","e">>), WB>>)>>),
   cat |-> "price"],
  [rx |-> Alt(<<Cat(<<WB, Lit(<<"a","n","c","i","l","l","a","r","y">>)>>), Lit(<<"c","a","p","a","c","i","t","y"," ","m","a","r","k","e","t">>),
                Lit(<<"b","a","l","a","n","c","i","n","g">>), Cat(<<Lit(<<"c","u","r","t","a","i","l","m","e","n","t">>), WB>>)>>),
   cat |-> "grid"],
  [rx |-> Alt(<<Cat(<<WB, Lit(<<"O","E","M">>)>>), Lit(<<"i","n","v","e","r","t","e","r">>),
                Lit(<<"m","o","d","u","l","e">>), Lit(<<"b","a","t","t","e","r","y">>),
                Cat(<<Lit(<<"t","e","c","h","n","o","l","o","g","y">>), WB>>)>>),
   cat |-> "tech"] >>

\* r"\b(GW|[3-9]\d{2}\s*MW)\b"
RX_CAPACITY ==
  Cat(<<WB,
        Alt(<<Lit(<<"G","W">>),
              Cat(<<Cls({"3", "4", "5", "6", "7", "8", "9"}), Cls(DigitSet),
                    Cls(DigitSet), Star(Cls(Whitespace)), Lit(<<"M","W">>)>>)>>),
        WB>>)

\* r"\b(>?\s*1000\s*MW|gigawatt)\b"
RX_GIGAWATT ==
  Cat(<<WB,
        Alt(<<Cat(<<Opt(Lit(<<">">>)), Star(Cls(Whitespace)), Lit(<<"1","0","0","0">>),
                    Star(Cls(Whitespace)), Lit(<<"M","W">>)>>),
              Lit(<<"g","i","g","a","w","a","t","t">>)>>),
        WB>>)

\* r"\bpolicy|auction result|capacity market|state-aid\b"
RX_POLICY ==
  Alt(<<Cat(<<WB, Lit(<<"p","o","l","i","c","y">>)>>), Lit(<<"a","u","c","t","i","o","n"," ","r","e","s","u","l","t">>),
        Lit(<<"c","a","p","a","c","i","t","y"," ","m","a","r","k","e","t">>), Cat(<<Lit(<<"s","t","a","t","e","-","a","i","d">>), WB>>)>>)

\* the tag triggers of normalize, in the order of its if statements
TAG_RULES == <<
  [rx |-> Alt(<<Cat(<<WB, Lit(<<"h","y","b","r","i","d">>)>>), Lit(<<"P","V","+","B","E","S","S">>),
                Cat(<<Lit(<<"R","T","C">>), WB>>)>>),
   tag |-> "PV+BESS"],
  [rx |-> Cat(<<WB, Lit(<<"w","i","n","d">>), WB>>), tag |-> "wind"],
  [rx |-> Alt(<<Cat(<<WB, Lit(<<"P","V">>)>>), Cat(<<Lit(<<"s","o","l","a","r">>), WB>>)>>),
   tag |-> "PV"],
  [rx |-> Alt(<<Cat(<<WB, Lit(<<"b","a","t","t","e","r","y">>)>>), Lit(<<"B","E","S","S">>),
                Cat(<<Lit(<<"s","t","o","r","a","g","e">>), WB>>)>>),
   tag |-> "storage"] >>

OFFICIAL == {"Bundesnetzagentur", "IEA", "IRENA", "EU Energy"}

\* feed.entries[:50]
EntryCap == 50

\* re.sub(...)[:600]
SummaryCap == 600

----------------------------------------------------------------------------
(* str helpers *)

RECURSIVE LStrip(_)
LStrip(s) == IF s # <<>> /\ Head(s) \in Whitespace THEN LStrip(Tail(s)) ELSE s

RECURSIVE RStrip(_)
RStrip(s) ==
  IF s # <<>> /\ s[Len(s)] \in Whitespace
  THEN RStrip(SubSeq(s, 1, Len(s) - 1)) ELSE s

\* str.strip()
Strip(s) == RStrip(LStrip(s))

\* re.sub(r"\s+", " ", s)
RECURSIVE CollapseWs(_)
CollapseWs(s) ==
  IF s = <<>> THEN <<>>
  ELSE IF Head(s) \in Whitespace
       THEN <<" ">> \o CollapseWs(LStrip(s))
       ELSE <<Head(s)>> \o CollapseWs(Tail(s))

\* s[:n]
Prefix(s, n) == SubSeq(s, 1, IF Len(s) < n THEN Len(s) ELSE n)

\* s.endswith(suf)
EndsWith(s, suf) ==
  /\ Len(suf) <= Len(s)
  /\ SubSeq(s, Len(s) - Len(suf) + 1, Len(s)) = suf

\* the least index >= from of a character of cs in s, or Len(s) + 1
FirstOf(s, cs, from) ==
  IF \E k \in from..Len(s) : s[k] \in cs
  THEN CHOOSE k \in from..Len(s) :
         s[k] \in cs /\ \A j \in from..(k - 1) : s[j] \notin cs
  ELSE Len(s) + 1

SchemeChars == SeqRange(Lowers) \cup UpperSet \cup DigitSet \cup {"+", "-", "."}

\* urlparse(text).netloc.  urlsplit first drops leading blanks (in the
\* Pythons that do), takes a scheme when the text up to the first ":" is
\* one, and reads a netloc only when what is left starts with "//"; the
\* netloc runs to the first "/", "?" or "#".  A "[" or "]" in the netloc
\* that is not a bracketed pair raises ValueError, which the caller turns
\* into the empty host.
Netloc(text, strip) ==
  LET u0 == IF strip THEN LStrip(text) ELSE text
      c  == FirstOf(u0, {":"}, 1)
      hasScheme ==
        /\ c > 1 /\ c <= Len(u0)
        /\ u0[1] \in (SeqRange(Lowers) \cup UpperSet)
        /\ \A k \in 1..(c - 1) : u0[k] \in SchemeChars
      u1 == IF hasScheme THEN SubSeq(u0, c + 1, Len(u0)) ELSE u0
      d  == FirstOf(u1, {"/", "?", "#"}, 3)
      nl == SubSeq(u1, 3, d - 1)
      hasOpen  == \E k \in 1..Len(nl) : nl[k] = "["
      hasClose == \E k \in 1..Len(nl) : nl[k] = "]"
  IN  IF Len(u1) >= 2 /\ u1[1] = "/" /\ u1[2] = "/"
      THEN IF hasOpen # hasClose THEN <<>> ELSE nl
      ELSE <<>>

----------------------------------------------------------------------------
(* The classifiers *)

RECURSIVE LastRegion(_, _)
\* the rules tried so that the last one in the list that matches wins
LastRegion(text, k) ==
  IF k > Len(REGION_MAP) THEN 0
  ELSE LET later == LastRegion(text, k + 1)
       IN  IF later # 0 THEN later
           ELSE IF Search(REGION_MAP[k].rx, text) THEN k ELSE 0

RECURSIVE FirstRegion(_, _)
\* the for loop of infer_region_country from rule k on: 0 when none matches
FirstRegion(text, k) ==
  IF k > Len(REGION_MAP) THEN 0
  ELSE IF Search(REGION_MAP[k].rx, text) THEN k
       ELSE FirstRegion(text, k + 1)

infer_region_country(text, strip) ==
  LET k == FirstRegion(text, 1)
  IN  IF k # 0 THEN REGION_MAP[k].rc
      ELSE IF EndsWith(Netloc(text, strip), <<".","d","e">>)
           THEN <<"Germany", "DE">>
           ELSE <<"Global", "">>

RECURSIVE FirstCategory(_, _)
FirstCategory(text, k) ==
  IF k > Len(CATEGORY_GUESS) THEN 0
  ELSE IF Search(CATEGORY_GUESS[k].rx, text) THEN k
       ELSE FirstCategory(text, k + 1)

guess_category(text) ==
  LET k == FirstCategory(text, 1)
  IN  IF k # 0 THEN CATEGORY_GUESS[k].cat ELSE "market"

Max(a, b) == IF a >= b THEN a ELSE b

\* a score that starts from 1, the bottom of the scale
score_impact_from1(text) ==
  LET s1 == IF Search(RX_CAPACITY, text) THEN 4 ELSE 1
      s2 == IF Search(RX_GIGAWATT, text) THEN 5 ELSE s1
  IN  IF Search(RX_POLICY, text) THEN Max(s2, 4) ELSE s2

score_impact(text) ==
  LET s0 == 3
      s1 == IF Search(RX_CAPACITY, text) THEN 4 ELSE s0
      s2 == IF Search(RX_GIGAWATT, text) THEN 5 ELSE s1
      s3 == IF Search(RX_POLICY, text) THEN Max(s2, 4) ELSE s2
  IN  s3

----------------------------------------------------------------------------
(* normalize *)

\* e.get(k) or ""
GetOrEmpty(entry, k) == IF k \in DOMAIN entry THEN entry[k] ELSE <<>>

Pow10(k) == IF k = 0 THEN 1 ELSE IF k = 1 THEN 10 ELSE IF k = 2 THEN 100 ELSE 1000

\* n in decimal, zero-padded to w digits (w <= 4)
ZeroPad(n, w) == [k \in 1..w |-> Digits[((n \div Pow10(w - k)) % 10) + 1]]

\* datetime(*dt[:6], tzinfo=timezone.utc).strftime("%Y-%m-%d"): the year,
\* month and day of the first six components, with no zone conversion
FormatDate(dt) ==
  LET six == SubSeq(dt, 1, 6)
  IN  ZeroPad(six[1], 4) \o <<"-">> \o ZeroPad(six[2], 2) \o <<"-">>
        \o ZeroPad(six[3], 2)

RECURSIVE TagsFrom(_, _, _)
\* the four if statements that append to item["tags"]
TagsFrom(text, k, acc) ==
  IF k > Len(TAG_RULES) THEN acc
  ELSE TagsFrom(text, k + 1,
                IF Search(TAG_RULES[k].rx, text)
                THEN Append(acc, TAG_RULES[k].tag) ELSE acc)

reliability_of(name) == IF name \in OFFICIAL THEN "official" ELSE "trade"

\* title = (e.get("title") or "").strip()
TitleOf(entry) == Strip(GetOrEmpty(entry, "title"))

\* summary = (e.get("summary") or e.get("subtitle") or "").strip()
SummaryOf(entry) ==
  Strip(IF GetOrEmpty(entry, "summary") # <<>> THEN entry["summary"]
        ELSE GetOrEmpty(entry, "subtitle"))

\* link = e.get("link", "")
LinkOf(entry) == GetOrEmpty(entry, "link")

\* dt = e.get("published_parsed") or e.get("updated_parsed"); <<>> is None
StampOf(entry) ==
  IF "published_parsed" \in DOMAIN entry THEN entry["published_parsed"]
  ELSE GetOrEmpty(entry, "updated_parsed")

\* text = f"{title} {summary}"
TextOf(entry) == TitleOf(entry) \o <<" ">> \o SummaryOf(entry)

\* the argument of infer_region_country: text + " " + link
GeoTextOf(entry) == TextOf(entry) \o <<" ">> \o LinkOf(entry)

normalize(name, entry, clock, strip) ==
  LET title   == TitleOf(entry)
      summary == SummaryOf(entry)
      link    == LinkOf(entry)
      dt      == StampOf(entry)
      date_utc == IF dt # <<>> THEN FormatDate(dt) ELSE FormatDate(clock)
      text    == TextOf(entry)
      rc      == infer_region_country(GeoTextOf(entry), strip)
      region  == rc[1]
      country == rc[2]
  IN  [date_utc |-> date_utc,
       headline |-> title,
       summary_80w |-> Prefix(CollapseWs(summary), SummaryCap),
       region |-> region,
       country |-> IF country # "" THEN country
                   ELSE IF region = "Europe" THEN "EU" ELSE "",
       category |-> guess_category(text),
       subtopic |-> "",
       capacity_MW |-> 0,
       storage_MWh |-> 0,
       project_stage |-> "NA",
       tariff_or_price_local |-> "",
       tariff_or_price_usd |-> "",
       entities |-> <<>>,
       location |-> [state_or_laender |-> "", city |-> "", grid_zone |-> ""],
       effective_date |-> date_utc,
       impact_score_1to5 |-> score_impact(text),
       tags |-> TagsFrom(text, 1, <<"utility-scale">>),
       source_name |-> name,
       source_url |-> link,
       reliability |-> reliability_of(name),
       notes |-> ""]

----------------------------------------------------------------------------
(* Inputs *)

\* feed entries carry at most this many words in a title
MaxWords == 2

Vocabulary == {
  <<"G","e","r","m","a","n","y">>, <<"I","n","d","i","a">>, <<"E","U">>, <<"O","c","e","a","n">>, <<"m","i","l","i","e","u">>,
  <<"p","o","l","i","c","y">>, <<"1","0","0","0"," ","M","W">>, <<"2","0","0","0"," ","M","W">>, <<"5","0","0"," ","M","W">> }

RECURSIVE Phrases(_)
\* the texts of at most n words of the vocabulary, joined by blanks
Phrases(n) ==
  IF n = 0 THEN {<<>>}
  ELSE LET shorter == Phrases(n - 1)
       IN  shorter \cup Vocabulary
             \cup {p \o <<" ">> \o w : p \in shorter \ {<<>>}, w \in Vocabulary}

Titles == Phrases(MaxWords)

Links == {<<"h","t","t","p","s",":","/","/","w","w","w",".","e","x","a","m","p","l","e",".","d","e","/","n","e","w","s","/","1">>, <<"h","t","t","p","s",":","/","/","w","w","w",".","e","x","a","m","p","l","e",".","c","o","m","/","a">>}

\* time.struct_time values: nine components
Stamps == {<<2024, 1, 2, 10, 30, 0, 1, 2, 0>>, <<2024, 1, 1, 23, 59, 59, 0, 1, 0>>}

\* what datetime.now(timezone.utc) reads during a run
Clocks == {<<2024, 3, 5, 8, 0, 0>>, <<2023, 12, 31, 23, 59, 59>>}

\* a dict with the keys whose value is given (a one-element tuple)
MkEntry(t, s, l, p) ==
  LET given == [k \in {"title", "summary", "link", "published_parsed"} |->
                  IF k = "title" THEN t ELSE IF k = "summary" THEN s
                  ELSE IF k = "link" THEN l ELSE p]
  IN  [k \in {k \in DOMAIN given : given[k] # <<>>} |-> given[k][1]]

Maybe(S) == {<<>>} \cup {<<x>> : x \in S}

\* entries for normalize: every title with and without each link, and
\* the one-word titles with every combination of the other fields
TextEntries ==
  {MkEntry(t, <<>>, l, <<>>) : t \in Maybe(Titles), l \in Maybe(Links)}
    \cup
  {MkEntry(t, s, l, p) :
     t \in Maybe(Vocabulary), s \in Maybe({<<"p","o","l","i","c","y">>}), l \in Maybe(Links),
     p \in Maybe(Stamps)}

SourceNames == {"Bundesnetzagentur", "Trade Blog"}

NoItem == <<>>

InitNorm ==
  /\ pc = "call"
  /\ now \in Clocks
  /\ lstrips \in BOOLEAN
  /\ src_name \in SourceNames
  /\ e \in TextEntries
  /\ item = NoItem
  /\ feedIdx = 0 /\ fetched = <<>> /\ items = <<>> /\ printed = <<>>
  /\ seen = {} /\ dedup = <<>> /\ df = <<>> /\ sink = <<>>

Normalize ==
  /\ pc = "call"
  /\ item' = normalize(src_name, e, now, lstrips)
  /\ pc' = "returned"
  /\ UNCHANGED <<now, lstrips, src_name, e, feedIdx, fetched, items, printed,
                 seen, dedup, df, sink>>

NextNorm == Normalize

SpecNorm == InitNorm /\ [][NextNorm]_vars

----------------------------------------------------------------------------
(* main: the fetch loop, deduplication, ranking and the sink *)

\* a key that leaves the link out
KeyHeadlineOnly(it) == <<it.headline>>

\* k=(it["headline"], it["source_url"])
KeyOf(it) == <<it.headline, it.source_url>>

RECURSIVE DedupLoopAdjacent(_, _, _, _)
\* a loop that only compares a Record with the one before it
DedupLoopAdjacent(its, i, sn, dd) ==
  IF i > Len(its) THEN <<sn, dd>>
  ELSE IF i > 1 /\ KeyOf(its[i]) = KeyOf(its[i - 1])
       THEN DedupLoopAdjacent(its, i + 1, sn, dd)
       ELSE DedupLoopAdjacent(its, i + 1, sn \cup {KeyOf(its[i])},
                              Append(dd, its[i]))

RECURSIVE DedupLoop(_, _, _, _)
\* the loop over items from index i on, with the keys seen and the
\* Records kept so far; yields the final <<seen, dedup>>
DedupLoop(its, i, sn, dd) ==
  IF i > Len(its) THEN <<sn, dd>>
  ELSE IF KeyOf(its[i]) \in sn
       THEN DedupLoop(its, i + 1, sn, dd)
       ELSE DedupLoop(its, i + 1, sn \cup {KeyOf(its[i])}, Append(dd, its[i]))

DedupOf(its) == DedupLoop(its, 1, {}, <<>>)[2]

RECURSIVE LexLess(_, _)
\* a < b for two str values: code point order, a proper prefix first
LexLess(a, b) ==
  IF b = <<>> THEN FALSE
  ELSE IF a = <<>> THEN TRUE
  ELSE IF Head(a) = Head(b) THEN LexLess(Tail(a), Tail(b))
  ELSE Ord(Head(a)) < Ord(Head(b))

\* row a sorts strictly before row b under
\* by=["date_utc","impact_score_1to5"], ascending=[False, False]
SortsBefore(a, b) ==
  \/ LexLess(b.date_utc, a.date_utc)
  \/ /\ a.date_utc = b.date_utc
     /\ a.impact_score_1to5 > b.impact_score_1to5

\* x put into the sorted rows t behind every row it does not sort before
InsertRow(t, x) ==
  LET at == IF \E k \in 1..Len(t) : SortsBefore(x, t[k])
            THEN CHOOSE k \in 1..Len(t) :
                   SortsBefore(x, t[k])
                     /\ \A j \in 1..(k - 1) : ~SortsBefore(x, t[j])
            ELSE Len(t) + 1
  IN  SubSeq(t, 1, at - 1) \o <<x>> \o SubSeq(t, at, Len(t))

RECURSIVE SortRows(_, _)
SortRows(rows, k) ==
  IF k = 0 THEN <<>> ELSE InsertRow(SortRows(rows, k - 1), rows[k])

\* DataFrame(rows).sort_values on two columns: pandas sorts several keys
\* with a lexsort over the keys' codes, which keeps rows that agree on
\* every key in their order (kind= only applies to a single key)
sort_values(rows) == SortRows(rows, Len(rows))

\* entries for the deduplication and ranking steps: two ties in date and
\* score, headlines that differ in case only, one headline under two
\* links, and one story (the same stripped title and link) on two dates
RankEntries == {
  MkEntry(<<<<"W","i","n","d"," ","f","a","r","m"," ","o","p","e","n","s">>>>, <<>>, <<<<"h","t","t","p","s",":","/","/","a",".","e","x","a","m","p","l","e","/","1">>>>,
          <<<<2024, 1, 2, 10, 30, 0, 1, 2, 0>>>>),
  MkEntry(<<<<"w","i","n","d"," ","f","a","r","m"," ","o","p","e","n","s">>>>, <<>>, <<<<"h","t","t","p","s",":","/","/","a",".","e","x","a","m","p","l","e","/","1">>>>,
          <<<<2024, 1, 2, 10, 30, 0, 1, 2, 0>>>>),
  MkEntry(<<<<" ","W","i","n","d"," ","f","a","r","m"," ","o","p","e","n","s"," ">>>>, <<>>, <<<<"h","t","t","p","s",":","/","/","a",".","e","x","a","m","p","l","e","/","1">>>>,
          <<<<2024, 1, 1, 23, 59, 59, 0, 1, 0>>>>),
  MkEntry(<<<<"1","0","0","0"," ","M","W"," ","p","o","l","i","c","y">>>>, <<>>, <<<<"h","t","t","p","s",":","/","/","a",".","e","x","a","m","p","l","e","/","2">>>>,
          <<<<2024, 1, 2, 10, 30, 0, 1, 2, 0>>>>),
  MkEntry(<<<<"1","0","0","0"," ","M","W"," ","p","o","l","i","c","y">>>>, <<>>, <<<<"h","t","t","p","s",":","/","/","a",".","e","x","a","m","p","l","e","/","3">>>>,
          <<<<2024, 1, 1, 23, 59, 59, 0, 1, 0>>>>) }

\* the two sources, by index in FEEDS, the Records of those steps come from
RankSources == {1, 5}

\* Records handed to the deduplication step
MaxLen == 4

RECURSIVE FetchOrders(_)
\* the <<source, entry>> sequences of length at most n in fetch order:
\* sources in registry order
FetchOrders(n) ==
  IF n = 0 THEN {<<>>}
  ELSE LET shorter == FetchOrders(n - 1)
       IN  shorter \cup
             {Append(q, x) : <<q, x>> \in
                {y \in shorter \X (RankSources \X RankEntries) :
                   y[1] = <<>> \/ y[1][Len(y[1])][1] <= y[2][1]}}

RankInputs == FetchOrders(MaxLen)

\* the feeds of the model
PipeEntries == {
  MkEntry(<<<<"G","e","r","m","a","n","y"," ","a","w","a","r","d","s"," ","5","0","0"," ","M","W"," ","s","o","l","a","r"," ","a","u","c","t","i","o","n">>>>,
          <<<<"B","u","n","d","e","s","n","e","t","z","a","g","e","n","t","u","r"," ","c","o","n","f","i","r","m","s"," ","r","e","s","u","l","t","s">>>>,
          <<<<"h","t","t","p","s",":","/","/","w","w","w",".","e","x","a","m","p","l","e",".","d","e","/","n","e","w","s","/","1">>>>,
          <<<<2024, 1, 2, 10, 30, 0, 1, 2, 0>>>>),
  MkEntry(<<>>, <<>>, <<>>, <<>>) }

\* entries one run fetches over all its sources
MaxItems == 2

RECURSIVE SeqsUpTo(_, _)
\* the sequences over S of length at most n
SeqsUpTo(S, n) ==
  IF n = 0 THEN {<<>>}
  ELSE LET shorter == SeqsUpTo(S, n - 1)
       IN  shorter \cup {Append(q, x) : q \in shorter, x \in S}

ShortFeeds == SeqsUpTo(PipeEntries, MaxItems)

\* a feed of EntryCap + 1 entries: EntryCap times a, then b
LongFeeds ==
  {[k \in 1..(EntryCap + 1) |-> IF k <= EntryCap THEN a ELSE b] :
     <<a, b>> \in {p \in PipeEntries \X PipeEntries : p[1] # p[2]}}

IsLong(f) == Len(f) > EntryCap

\* what a feed takes of the run's budget: a long feed counts once
Weight(f) == IF IsLong(f) THEN 1 ELSE Len(f)

RECURSIVE Budget(_)
\* the budget the sources visited have used
Budget(fs) ==
  IF fs = <<>> THEN 0
  ELSE (IF Head(fs).ok THEN Weight(Head(fs).entries) ELSE 0) + Budget(Tail(fs))

\* normalize on the inputs of the pipeline, tabulated (the merge with the
\* empty function makes the table an explicit function, evaluated once)
NormTable ==
  [x \in SeqRange(FEEDS) \X (PipeEntries \cup RankEntries) \X Clocks
          \X BOOLEAN |->
     normalize(x[1], x[2], x[3], x[4])] @@ <<>>

\* [normalize(name, e) for e in entries[:50]]
NormalizeAll(name, entries, clock, strip) ==
  [k \in 1..Len(Prefix(entries, EntryCap)) |->
     NormTable[<<name, entries[k], clock, strip>>]]

Init ==
  /\ pc = "fetch"
  /\ now \in Clocks
  /\ lstrips \in BOOLEAN
  /\ src_name = "" /\ e = <<>> /\ item = NoItem
  /\ feedIdx = 1 /\ fetched = <<>> /\ items = <<>> /\ printed = <<>>
  /\ seen = {} /\ dedup = <<>> /\ df = <<>> /\ sink = <<>>

AfterFetch == IF feedIdx = Len(FEEDS) THEN "dedup" ELSE "fetch"

\* one iteration of the for loop whose feedparser.parse returns a feed
FetchOk ==
  /\ pc = "fetch"
  /\ \E f \in ShortFeeds \cup LongFeeds :
       /\ Budget(fetched) + Weight(f) <= MaxItems
       /\ items' = items \o NormalizeAll(FEEDS[feedIdx], f, now, lstrips)
       /\ fetched' = Append(fetched, [ok |-> TRUE, entries |-> f])
  /\ feedIdx' = feedIdx + 1
  /\ pc' = AfterFetch
  /\ UNCHANGED <<now, lstrips, src_name, e, item, printed, seen, dedup, df,
                 sink>>

\* one iteration whose feedparser.parse raises: the except clause prints
FetchFails ==
  /\ pc = "fetch"
  /\ printed' = Append(printed, FEEDS[feedIdx])
  /\ fetched' = Append(fetched, [ok |-> FALSE, entries |-> <<>>])
  /\ feedIdx' = feedIdx + 1
  /\ pc' = AfterFetch
  /\ UNCHANGED <<now, lstrips, src_name, e, item, items, seen, dedup, df,
                 sink>>

\* lines 114-118
Dedup ==
  /\ pc = "dedup"
  /\ seen' = DedupLoop(items, 1, {}, <<>>)[1]
  /\ dedup' = DedupOf(items)
  /\ pc' = "rank"
  /\ UNCHANGED <<now, lstrips, src_name, e, item, feedIdx, fetched, items,
                 printed, df, sink>>

\* line 120 on a frame with rows
Rank ==
  /\ pc = "rank"
  /\ dedup # <<>>
  /\ df' = sort_values(dedup)
  /\ pc' = "write"
  /\ UNCHANGED <<now, lstrips, src_name, e, item, feedIdx, fetched, items,
                 printed, seen, dedup, sink>>

\* line 120 on no rows: DataFrame([]) has no columns, and sort_values
\* raises KeyError for the label "date_utc"; main ends with the traceback
RankRaises ==
  /\ pc = "rank"
  /\ dedup = <<>>
  /\ pc' = "raised"
  /\ UNCHANGED <<now, lstrips, src_name, e, item, feedIdx, fetched, items,
                 printed, seen, dedup, df, sink>>

\* lines 121-122: the rows of df, in its order
Write ==
  /\ pc = "write"
  /\ sink' = df
  /\ pc' = "done"
  /\ UNCHANGED <<now, lstrips, src_name, e, item, feedIdx, fetched, items,
                 printed, seen, dedup, df>>

Next == FetchOk \/ FetchFails \/ Dedup \/ Rank \/ RankRaises \/ Write

Spec == Init /\ [][Next]_vars

\* the state at line 114 of a run whose loop has ended
InitRank ==
  /\ pc = "dedup"
  /\ now \in Clocks
  /\ lstrips \in BOOLEAN
  /\ src_name = "" /\ e = <<>> /\ item = NoItem
  /\ feedIdx = Len(FEEDS) + 1 /\ fetched = <<>> /\ printed = <<>>
  /\ \E q \in RankInputs :
       items = [k \in 1..Len(q) |->
                  NormTable[<<FEEDS[q[k][1]], q[k][2], now, lstrips>>]]
  /\ seen = {} /\ dedup = <<>> /\ df = <<>> /\ sink = <<>>

NextRank == Dedup \/ Rank \/ RankRaises \/ Write

SpecRank == InitRank /\ [][NextRank]_vars

----------------------------------------------------------------------------
(* What the claims say about a text, in the claims' own terms *)

\* re.search can match rule k of REGION_MAP in txt
RuleMatches(k, txt) == Search(REGION_MAP[k].rx, txt)

\* the name an alternative of a rule's pattern spells
NameOf(alt) ==
  IF alt.t = "lit" THEN alt.s
  ELSE (CHOOSE r \in SeqRange(alt.rs) : r.t = "lit").s

\* one of rule k's names stands in txt as a word of its own
NameIsWord(k, txt) ==
  \E j \in 1..Len(REGION_MAP[k].rx.rs) :
    Search(Cat(<<WB, Lit(NameOf(REGION_MAP[k].rx.rs[j])), WB>>), txt)

\* where the leftmost match of rule k starts
FirstStart(k, txt) ==
  CHOOSE i \in 1..(Len(txt) + 1) :
    /\ Ends(REGION_MAP[k].rx, txt, i) # {}
    /\ \A j \in 1..(i - 1) : Ends(REGION_MAP[k].rx, txt, j) = {}

RECURSIVE NumberAt(_, _, _)
\* the value of the digits txt[i..j]
NumberAt(txt, i, j) ==
  IF j < i THEN 0 ELSE 10 * NumberAt(txt, i, j - 1) + DigitVal[txt[j]]

\* the values of the megawatt figures of txt: a whole number, blanks, "MW"
MegawattFigures(txt) ==
  {NumberAt(txt, x[1], x[2]) :
     x \in {y \in (1..Len(txt)) \X (1..Len(txt)) :
              /\ y[1] <= y[2]
              /\ \A k \in y[1]..y[2] : txt[k] \in DigitSet
              /\ ~(y[1] > 1 /\ txt[y[1] - 1] \in DigitSet)
              /\ Ends(Cat(<<Star(Cls(Whitespace)), Lit(<<"M","W">>), WB>>),
                      txt, y[2] + 1) # {}}}

HasWord(txt, w) == Search(Cat(<<WB, Lit(w), WB>>), txt)

\* a quantity of 1000 MW or more, or the word gigawatt
GigawattScale(txt) ==
  (\E v \in MegawattFigures(txt) : v >= 1000) \/ HasWord(txt, <<"g","i","g","a","w","a","t","t">>)

\* a quantity of 300 to 999 MW
MidScale(txt) == \E v \in MegawattFigures(txt) : v >= 300 /\ v <= 999

CapacitySignal(txt) ==
  GigawattScale(txt) \/ MidScale(txt) \/ HasWord(txt, <<"G","W">>)

PolicyLanguage(txt) ==
  \/ HasWord(txt, <<"p","o","l","i","c","y">>) \/ HasWord(txt, <<"a","u","c","t","i","o","n"," ","r","e","s","u","l","t">>)
  \/ HasWord(txt, <<"c","a","p","a","c","i","t","y"," ","m","a","r","k","e","t">>) \/ HasWord(txt, <<"s","t","a","t","e","-","a","i","d">>)

\* the host of the entry's link
LinkHost(entry) == Netloc(LinkOf(entry), TRUE)

----------------------------------------------------------------------------
(* Claims about normalize and its classifiers (SpecNorm) *)

\* C4: text with a quantity of 1000 MW or more (or "gigawatt") and policy
\* language scores 5; text with only a 300-999 MW quantity scores 4; text
\* with neither a capacity signal nor policy language scores 3.
C4_MonotonicScoring ==
  pc = "returned" =>
    LET txt == TextOf(e)
    IN  /\ (GigawattScale(txt) /\ PolicyLanguage(txt))
             => item.impact_score_1to5 = 5
        /\ (MidScale(txt) /\ ~GigawattScale(txt) /\ ~PolicyLanguage(txt))
             => item.impact_score_1to5 = 4
        /\ (~CapacitySignal(txt) /\ ~PolicyLanguage(txt))
             => item.impact_score_1to5 = 3

\* C5: when no geography rule matches the headline, summary and link, a
\* link whose host ends in ".de" yields ("Germany", "DE"), whatever the
\* headline and summary hold, and any other link yields ("Global", "").
\* Stated for the Pythons whose urlsplit strips leading blanks, where the
\* fallback can see a host at all.
C5_DomainSuffixFallback ==
  (pc = "returned" /\ lstrips /\ \A k \in 1..Len(REGION_MAP) : ~RuleMatches(k, GeoTextOf(e)))
    => IF EndsWith(LinkHost(e), <<".","d","e">>)
       THEN item.region = "Germany" /\ item.country = "DE"
       ELSE item.region = "Global" /\ item.country = ""

\* C6: an entry with no field at all, from a source outside the official
\* set, normalizes to the all-defaults Record dated with the current UTC
\* date.
C6_DefaultSafety ==
  (pc = "returned" /\ DOMAIN e = {} /\ src_name \notin OFFICIAL)
    => /\ item.headline = <<>>
       /\ item.summary_80w = <<>>
       /\ item.region = "Global"
       /\ item.country = ""
       /\ item.category = "market"
       /\ item.impact_score_1to5 = 3
       /\ item.tags = <<"utility-scale">>
       /\ item.reliability = "trade"
       /\ item.source_url = <<>>
       /\ now = <<2024, 3, 5, 8, 0, 0>> => item.date_utc = <<"2","0","2","4","-","0","3","-","0","5">>
       /\ now = <<2023, 12, 31, 23, 59, 59>> => item.date_utc = <<"2","0","2","3","-","1","2","-","3","1">>

C6_Witness ==
  pc = "returned" /\ DOMAIN e = {} /\ src_name \notin OFFICIAL
    /\ item.date_utc = <<"2","0","2","3","-","1","2","-","3","1">>

\* C8: when several geography rules match the text, the pair returned is
\* that of the earliest rule in the list Germany, India, Europe, wherever
\* in the text the matches stand.
C8_RulePrecedence ==
  pc = "returned" =>
    \A k \in 1..Len(REGION_MAP) :
      (RuleMatches(k, GeoTextOf(e))
         /\ \A j \in 1..(k - 1) : ~RuleMatches(j, GeoTextOf(e)))
        => <<item.region, item.country>> = REGION_MAP[k].rc

\* two rules match and the later rule's match stands first in the text
C8_Witness ==
  /\ pc = "returned"
  /\ \E k \in 1..Len(REGION_MAP) : \E j \in 1..(k - 1) :
       /\ RuleMatches(j, GeoTextOf(e)) /\ RuleMatches(k, GeoTextOf(e))
       /\ FirstStart(k, GeoTextOf(e)) < FirstStart(j, GeoTextOf(e))
       /\ <<item.region, item.country>> = REGION_MAP[j].rc

\* C9: a geography rule matches only where one of its names stands as a
\* whole word; a text whose rule names are all embedded in longer words,
\* with a link host not ending in ".de", is classified ("Global", "").
C9_WholeWordGeography ==
  pc = "returned" =>
    /\ \A k \in 1..Len(REGION_MAP) :
         RuleMatches(k, GeoTextOf(e)) => NameIsWord(k, GeoTextOf(e))
    /\ ((\A k \in 1..Len(REGION_MAP) : ~NameIsWord(k, GeoTextOf(e)))
          /\ ~EndsWith(LinkHost(e), <<".","d","e">>))
         => (item.region = "Global" /\ item.country = "")

----------------------------------------------------------------------------
(* Claims about deduplication and ranking (SpecRank) *)

\* two Records carry the same (headline, source_url) pair
SameStory(a, b) == a.headline = b.headline /\ a.source_url = b.source_url

IsFirst(its, i) == \A j \in 1..(i - 1) : ~SameStory(its[j], its[i])

RECURSIVE FirstOccurrences(_, _)
\* the Records among its[1..k] that no earlier Record shares its pair with
FirstOccurrences(its, k) ==
  IF k = 0 THEN <<>>
  ELSE IF IsFirst(its, k) THEN Append(FirstOccurrences(its, k - 1), its[k])
       ELSE FirstOccurrences(its, k - 1)

Deduped == pc \in {"rank", "write", "done", "raised"}

\* C1: the deduplicated sequence is the subsequence of first occurrences
\* of each (headline, source_url) pair, in the original order; no two of
\* its Records share a pair and every pair of the input is in it once.
C1_FirstOccurrenceWins ==
  Deduped =>
    /\ dedup = FirstOccurrences(items, Len(items))
    /\ \A i \in 1..Len(dedup) : \A j \in 1..Len(dedup) :
         SameStory(dedup[i], dedup[j]) => i = j
    /\ \A i \in 1..Len(items) :
         Cardinality({j \in 1..Len(dedup) : SameStory(dedup[j], items[i])}) = 1
    /\ seen = {<<items[i].headline, items[i].source_url>> : i \in 1..Len(items)}

\* a Record is dropped between two that are kept, and it differs from the
\* earlier Record that won its pair
C1_Witness ==
  /\ pc = "rank"
  /\ \E i \in 1..Len(items) : \E j \in (i + 1)..Len(items) :
       \E k \in (j + 1)..Len(items) :
         /\ IsFirst(items, i) /\ IsFirst(items, k)
         /\ SameStory(items[i], items[j]) /\ items[i] # items[j]
         /\ dedup = <<items[i], items[k]>>

\* the day a formatted date names, as a number
DateNumber(d) ==
  NumberAt(d, 1, 4) * 10000 + NumberAt(d, 6, 7) * 100 + NumberAt(d, 9, 10)

\* a ranks strictly ahead of b: the later date, then the higher score
RanksAhead(a, b) ==
  \/ DateNumber(a.date_utc) > DateNumber(b.date_utc)
  \/ /\ DateNumber(a.date_utc) = DateNumber(b.date_utc)
     /\ a.impact_score_1to5 > b.impact_score_1to5

IndexIn(rows, r) == CHOOSE k \in 1..Len(rows) : rows[k] = r

\* out holds the Records of rows, each once and unaltered, by date and
\* then score descending, ties in the order they have in rows
IsStableRanking(rows, out) ==
  /\ Len(out) = Len(rows)
  /\ SeqRange(out) = SeqRange(rows)
  /\ \A i \in 1..Len(out) : \A j \in (i + 1)..Len(out) :
       /\ ~RanksAhead(out[j], out[i])
       /\ ~RanksAhead(out[i], out[j])
            => IndexIn(rows, out[i]) < IndexIn(rows, out[j])

\* C2: for every deduplicated sequence the ranking step yields a
\* permutation of it sorted by date descending, then score descending,
\* ties in their original order.
C2_Ranking ==
  pc \in {"write", "done", "raised"}
    => (pc # "raised" /\ IsStableRanking(dedup, df))

\* C2, where line 120 returns: the frame is the stable ranking of the
\* deduplicated Records, and the sink receives it in that order.
RankedFrameIsStableRanking ==
  /\ pc \in {"write", "done"} => IsStableRanking(dedup, df)
  /\ pc = "done" => sink = df

\* the example of the spec: (01-02, 3), (01-02, 5), (01-01, 5) comes out
\* as (01-02, 5), (01-02, 3), (01-01, 5), and a tie keeps its order
RankedExampleReached ==
  /\ pc = "write"
  /\ Len(dedup) = 4
  /\ <<dedup[1].impact_score_1to5, dedup[2].impact_score_1to5,
       dedup[3].impact_score_1to5, dedup[4].impact_score_1to5>> = <<3, 5, 5, 3>>
  /\ dedup[1].date_utc = dedup[2].date_utc
  /\ dedup[1].date_utc = dedup[4].date_utc
  /\ dedup[3].date_utc # dedup[1].date_utc
  /\ df = <<dedup[2], dedup[1], dedup[4], dedup[3]>>

\* C7: the deduplication of S \o S is the deduplication of S, and the
\* deduplication of its own output changes nothing.
C7_DedupIdempotent ==
  Deduped =>
    /\ DedupOf(items \o items) = dedup
    /\ DedupOf(dedup) = dedup
    /\ \A n \in 1..Len(items) :
         items = SubSeq(items, 1, n) \o SubSeq(items, 1, n)
           => dedup = DedupOf(SubSeq(items, 1, n))

\* the step ran on two copies of a sequence of two stories
C7_Witness ==
  /\ pc = "rank"
  /\ Len(items) = 4
  /\ items = SubSeq(items, 1, 2) \o SubSeq(items, 1, 2)
  /\ dedup = SubSeq(items, 1, 2)

----------------------------------------------------------------------------
(* Claims about the fetch loop (Spec) *)

RECURSIVE FailedNames(_, _)
\* the names of the sources among the first k whose fetch raised
FailedNames(fs, k) ==
  IF k = 0 THEN <<>>
  ELSE IF fs[k].ok THEN FailedNames(fs, k - 1)
       ELSE Append(FailedNames(fs, k - 1), FEEDS[k])

RECURSIVE ExpectedItems(_, _, _, _)
\* the Records of the first EntryCap entries of every source among the
\* first k that did not fail, source after source
ExpectedItems(fs, k, clock, strip) ==
  IF k = 0 THEN <<>>
  ELSE ExpectedItems(fs, k - 1, clock, strip) \o
         (IF fs[k].ok
          THEN [j \in 1..(IF Len(fs[k].entries) < 50
                           THEN Len(fs[k].entries) ELSE 50)
                  |-> NormTable[<<FEEDS[k], fs[k].entries[j], clock, strip>>]]
          ELSE <<>>)

\* C3, the loop: every source is visited in registry order, each failed
\* source is named in a diagnostic, and the first 50 entries of every
\* other source reach the deduplication step as Records.
FetchLoopIsolates ==
  /\ Len(fetched) = feedIdx - 1
  /\ printed = FailedNames(fetched, Len(fetched))
  /\ pc # "fetch" => Len(fetched) = Len(FEEDS)
  /\ pc = "dedup" => items = ExpectedItems(fetched, Len(fetched), now, lstrips)

\* C3: whatever sources fail, the loop visits the others, names each
\* failed source, hands every entry (up to 50) of the others to the
\* deduplication step, and the pipeline does not abort.
C3_FetchFailureIsolation ==
  /\ Len(fetched) = feedIdx - 1
  /\ printed = FailedNames(fetched, Len(fetched))
  /\ pc # "fetch" => Len(fetched) = Len(FEEDS)
  /\ pc # "raised"

\* C10: Records from Bundesnetzagentur, IEA News, IRENA and EU Energy are
\* official, Records from PV-Tech and Energy Storage News are trade.
C10_TrustTier ==
  \A k \in 1..Len(items) :
    /\ items[k].source_name \in
         {"Bundesnetzagentur", "IEA News", "IRENA", "EU Energy"}
       => items[k].reliability = "official"
    /\ items[k].source_name \in {"PV-Tech", "Energy Storage News"}
       => items[k].reliability = "trade"

====
